---- MODULE Spec2Model ----
(***************************************************************************)
(* Transmit path of the uhd crate: TransmitMetadata (metadata.rs) and      *)
(* TransmitStreamer (streamer.rs), together with the part of the UHD C     *)
(* library that the two types call through uhd_sys.                        *)
(*                                                                         *)
(* The native library is modelled as a heap of tx_metadata descriptors     *)
(* (hw_tx_metadata) and one tx_streamer (hw_streamer).  Every call that    *)
(* crosses the FFI boundary is appended to the hwCalls field of the call   *)
(* record, so that "which native entry points did this call reach" is      *)
(* part of the state.                                                      *)
(***************************************************************************)
EXTENDS Integers, Sequences, FiniteSets, TLC

\* ------------------------------------------------------------------ bounds
MaxChannels == 2      \* the streamer is bound to 0..MaxChannels channels
MaxBuffers == 3       \* a transmit call passes 0..MaxBuffers buffers
MaxLen == 1           \* a buffer holds 0..MaxLen samples
MaxMeta == 2          \* tx_metadata descriptors the native heap can hold
MaxSecs == 1          \* TimeSpec.seconds ranges over 0..MaxSecs
VMaxBuffers == 3      \* validator inputs: 0..VMaxBuffers buffers
VMaxLen == 3          \* validator inputs: lengths 0..VMaxLen

Threads == {"t1", "t2"}   \* threads sharing the streamer
Bases == {1, 2}           \* two disjoint buffer sets a caller owns
Handles == 1..MaxMeta
NULL == 0             \* ptr::null_mut()

VARIABLES
    hw_num_channels,  \* channel count the native streamer reports
    hw_streamer,      \* native tx_streamer: [allocated, frees]
    hw_tx_metadata,   \* native heap: handle -> descriptor
    buffer_pointers,  \* TransmitStreamer.buffer_pointers
    streamer_live,    \* the TransmitStreamer value has not been dropped
    metadata,         \* handle -> the TransmitMetadata value that owns it
    pc,               \* thread -> the streamer method it is executing
    lastCall,         \* the most recent completed call
    vbuffers,         \* input of check_equal_buffer_lengths (validator runs)
    vresult           \* its outcome: [done, panic, value]

vars == <<hw_num_channels, hw_streamer, hw_tx_metadata, buffer_pointers,
          streamer_live, metadata, pc, lastCall, vbuffers, vresult>>

\* ------------------------------------------------------------ value types
\* Option<TimeSpec>: None, or Some(TimeSpec { seconds, fraction })
None == [present |-> FALSE, seconds |-> 0, fraction |-> 0]
Some(s, f) == [present |-> TRUE, seconds |-> s, fraction |-> f]
\* fraction is a sub-second offset in [0,1), here in halves of a second
Fractions == {0, 1}
TimeSpecs == {Some(s, f) : s \in 0..MaxSecs, f \in Fractions}
OptTimeSpecs == {None} \cup TimeSpecs
BurstSpecs == [start : BOOLEAN, end : BOOLEAN]

\* A caller's buffer: the address as_mut_ptr() yields and its len().
\* Buffer i of buffer set b lives at a distinct non-null address.
Addr(b, i) == b * (MaxBuffers + 2) + i
BufferSets ==
    UNION {[1..n -> 0..MaxLen] : n \in 0..MaxBuffers}
MkBuffers(b, lens) ==
    [i \in 1..Len(lens) |-> [addr |-> Addr(b, i), len |-> lens[i]]]

\* ------------------------------------------------ native library (uhd_sys)
\* An unallocated descriptor slot; frees counts uhd_tx_metadata_free calls
\* made on the slot's current (or last) allocation.
FreeSlot(n) ==
    [allocated |-> FALSE, has_time_spec |-> FALSE, full_secs |-> 0,
     frac_secs |-> 0, start_of_burst |-> FALSE, end_of_burst |-> FALSE,
     frees |-> n]

HasFreeHandle(hw) == \E h \in Handles : ~hw[h].allocated
FreshHandle(hw) ==
    CHOOSE h \in Handles :
        /\ ~hw[h].allocated
        /\ \A g \in Handles : g < h => hw[g].allocated

\* uhd_tx_metadata_make(&mut handle, has_time_spec, full_secs, frac_secs,
\*                      start_of_burst, end_of_burst)
uhd_tx_metadata_make(hw, h, a) ==
    [hw EXCEPT ![h] =
        [allocated |-> TRUE, has_time_spec |-> a.has_time_spec,
         full_secs |-> a.full_secs, frac_secs |-> a.frac_secs,
         start_of_burst |-> a.start_of_burst,
         end_of_burst |-> a.end_of_burst, frees |-> 0]]

\* uhd_tx_metadata_free(&mut handle)
uhd_tx_metadata_free(hw, h) == [hw EXCEPT ![h] = FreeSlot(hw[h].frees + 1)]

\* uhd_tx_streamer_free(&mut handle)
uhd_tx_streamer_free(s) == [allocated |-> FALSE, frees |-> s.frees + 1]

\* ------------------------------------------------------- TransmitMetadata
\* Variant: the two burst flags handed over in the wrong order.
new_make_args_swapped(burst, time) ==
    [has_time_spec |-> time.present,
     full_secs |-> IF time.present THEN time.seconds ELSE 0,
     frac_secs |-> IF time.present THEN time.fraction ELSE 0,
     start_of_burst |-> burst.end,
     end_of_burst |-> burst.start]

\* The arguments TransmitMetadata::new hands to uhd_tx_metadata_make.
new_make_args(burst, time) ==
    [has_time_spec |-> time.present,
     full_secs |-> IF time.present THEN time.seconds ELSE 0,
     frac_secs |-> IF time.present THEN time.fraction ELSE 0,
     start_of_burst |-> burst.start,
     end_of_burst |-> burst.end]

\* Variant: a default that claims to carry a time.
default_make_args_timed ==
    [has_time_spec |-> TRUE, full_secs |-> 0, frac_secs |-> 0,
     start_of_burst |-> FALSE, end_of_burst |-> FALSE]

\* The arguments Default::default hands to uhd_tx_metadata_make.
default_make_args ==
    [has_time_spec |-> FALSE, full_secs |-> 0, frac_secs |-> 0,
     start_of_burst |-> FALSE, end_of_burst |-> FALSE]

\* The Rust value: TransmitMetadata { handle, samples: 0 }, with the
\* constructor's inputs kept beside it.
NoMetadata(st) ==
    [state |-> st, samples |-> 0, origin |-> "none",
     burst_spec |-> [start |-> FALSE, end |-> FALSE], time_spec |-> None]
LiveMetadata(origin, burst, time) ==
    [state |-> "live", samples |-> 0, origin |-> origin,
     burst_spec |-> burst, time_spec |-> time]

has_time_spec(h) == hw_tx_metadata[h].has_time_spec
time_spec(h) ==
    IF has_time_spec(h)
    THEN Some(hw_tx_metadata[h].full_secs, hw_tx_metadata[h].frac_secs)
    ELSE None
start_of_burst(h) == hw_tx_metadata[h].start_of_burst
end_of_burst(h) == hw_tx_metadata[h].end_of_burst
samples(h) == metadata[h].samples

\* Variant: a Drop that does not call uhd_tx_metadata_free.
drop_without_free(hw, h) == hw

\* impl Drop for TransmitMetadata
drop_TransmitMetadata(hw, h) == uhd_tx_metadata_free(hw, h)

\* impl Drop for TransmitStreamer
drop_TransmitStreamer(s) == uhd_tx_streamer_free(s)

\* The record of a completed call.
Call(op, result, hwCalls, handle, buffers) ==
    [op |-> op, result |-> result, hwCalls |-> hwCalls, handle |-> handle,
     buffers |-> buffers, samples_transmitd |-> 0]

\* No completed call to look at: the initial state, and while a streamer
\* method that has just been entered is still running.
NoCall == Call("none", "none", <<>>, NULL, <<>>)

StreamerVars == <<hw_num_channels, hw_streamer, buffer_pointers,
                  streamer_live, pc>>
ValidatorVars == <<vbuffers, vresult>>

\* TransmitMetadata::new(burst_spec, time_spec)
MetadataNew(burst, time, allocOk) ==
    /\ allocOk => HasFreeHandle(hw_tx_metadata)
    /\ IF allocOk
       THEN LET h == FreshHandle(hw_tx_metadata) IN
            /\ hw_tx_metadata' =
                   uhd_tx_metadata_make(hw_tx_metadata, h,
                                        new_make_args(burst, time))
            /\ metadata' = [metadata EXCEPT
                   ![h] = LiveMetadata("new", burst, time)]
            /\ lastCall' = Call("new", "value", <<"uhd_tx_metadata_make">>,
                                h, <<>>)
       ELSE \* check_status(..) is Err and .unwrap() panics
            /\ lastCall' = Call("new", "panic_unwrap",
                                <<"uhd_tx_metadata_make">>, NULL, <<>>)
            /\ UNCHANGED <<hw_tx_metadata, metadata>>
    /\ UNCHANGED <<StreamerVars, ValidatorVars>>

\* TransmitMetadata::default()
MetadataDefault(allocOk) ==
    /\ allocOk => HasFreeHandle(hw_tx_metadata)
    /\ IF allocOk
       THEN LET h == FreshHandle(hw_tx_metadata) IN
            /\ hw_tx_metadata' =
                   uhd_tx_metadata_make(hw_tx_metadata, h, default_make_args)
            /\ metadata' = [metadata EXCEPT
                   ![h] = LiveMetadata("default",
                                       [start |-> FALSE, end |-> FALSE], None)]
            /\ lastCall' = Call("default", "value",
                                <<"uhd_tx_metadata_make">>, h, <<>>)
       ELSE /\ lastCall' = Call("default", "panic_unwrap",
                                <<"uhd_tx_metadata_make">>, NULL, <<>>)
            /\ UNCHANGED <<hw_tx_metadata, metadata>>
    /\ UNCHANGED <<StreamerVars, ValidatorVars>>

\* A TransmitMetadata value goes out of scope.
MetadataDrop(h) ==
    /\ metadata[h].state = "live"
    /\ hw_tx_metadata' = drop_TransmitMetadata(hw_tx_metadata, h)
    /\ metadata' = [metadata EXCEPT ![h] = NoMetadata("dropped")]
    /\ lastCall' = Call("drop_metadata", "value",
                        <<"uhd_tx_metadata_free">>, h, <<>>)
    /\ UNCHANGED <<StreamerVars, ValidatorVars>>

\* ------------------------------------------------------- TransmitStreamer
\* One step of the fold in check_equal_buffer_lengths: the accumulator is
\* an Option<usize> (some, size), or the assert_eq! has fired (panic).
fold_step(prev_size, buffer) ==
    IF prev_size.panic THEN prev_size
    ELSE IF ~prev_size.some
         THEN [panic |-> FALSE, some |-> TRUE, size |-> buffer.len]
         ELSE IF prev_size.size # buffer.len
              THEN [panic |-> TRUE, some |-> TRUE, size |-> prev_size.size]
              ELSE prev_size

RECURSIVE fold(_, _)
fold(acc, buffers) ==
    IF buffers = <<>> THEN acc
    ELSE fold(fold_step(acc, Head(buffers)), Tail(buffers))

\* Variant: the first length is returned and the other buffers are not
\* compared with it.
check_first_length_only(buffers) ==
    [panic |-> FALSE,
     value |-> IF buffers = <<>> THEN 0 ELSE Head(buffers).len]

\* check_equal_buffer_lengths(buffers): [panic, value]
check_equal_buffer_lengths(buffers) ==
    LET r == fold([panic |-> FALSE, some |-> FALSE, size |-> 0], buffers)
    IN  [panic |-> r.panic,
         value |-> IF r.panic THEN 0 ELSE IF r.some THEN r.size ELSE 0]

\* self.num_channels() on a live streamer whose native query succeeds
num_channels == hw_num_channels

\* Variant: the cache sized one entry too long.
resize_one_more(cache, n) ==
    IF cache = <<>> THEN [i \in 1..(n + 1) |-> NULL] ELSE cache

\* if self.buffer_pointers.is_empty() { resize(self.num_channels(), null) }
resize_if_empty(cache, n) ==
    IF cache = <<>> THEN [i \in 1..n |-> NULL] ELSE cache

\* Variant: the count check written as an upper bound.
count_at_most(buffers, cache) == Len(buffers) <= Len(cache)

\* assert_eq!(buffers.len(), self.buffer_pointers.len(), ..)
count_matches(buffers, cache) == Len(buffers) = Len(cache)

\* Variant: the copy loop stopping one buffer early.
copy_pointers_short(cache, buffers) ==
    [i \in 1..Len(cache) |->
        IF i < Len(buffers) THEN buffers[i].addr ELSE cache[i]]

\* for (entry, buffer) in buffer_pointers.iter_mut().zip(buffers.iter_mut())
copy_pointers(cache, buffers) ==
    [i \in 1..Len(cache) |->
        IF i <= Len(buffers) THEN buffers[i].addr ELSE cache[i]]

\* Variant: transmit taking &self on the Sync streamer.
BorrowUnchecked(t) == TRUE

\* &mut self: no other borrow of the streamer is alive
ExclusiveBorrow(t) == \A u \in Threads : pc[u] = "idle"

\* &self: no exclusive borrow of the streamer is alive
SharedBorrow(t) ==
    \A u \in Threads : pc[u] \notin {"transmit", "transmit_simple"}

\* How a transmit call ends: the cache, the native heap, the fate of the
\* metadata local (moved to the caller inside Ok, or dropped on unwinding).
TransmitEnd(t, op, buffers, result, calls, cache, hw, h, moved) ==
    /\ buffer_pointers' = cache
    /\ hw_tx_metadata' = hw
    /\ metadata' =
          IF h = NULL THEN metadata
          ELSE [metadata EXCEPT ![h] =
                   IF moved
                   THEN LiveMetadata("default",
                                     [start |-> FALSE, end |-> FALSE], None)
                   ELSE NoMetadata("dropped")]
    /\ lastCall' = Call(op, result, calls, h, buffers)
    /\ pc' = [pc EXCEPT ![t] = "idle"]
    /\ UNCHANGED <<hw_num_channels, hw_streamer, streamer_live, ValidatorVars>>

\* The body of TransmitStreamer::transmit(buffers, timeout, one_packet).
\* timeout and one_packet are not read by the body.  allocOk and ncOk are
\* the statuses the native library returns for uhd_tx_metadata_make and
\* uhd_tx_streamer_num_channels.
TransmitBody(t, op, buffers, allocOk, ncOk) ==
    /\ allocOk => HasFreeHandle(hw_tx_metadata)
    /\ IF ~allocOk
       THEN \* TransmitMetadata::default() panics in .unwrap()
            TransmitEnd(t, op, buffers, "panic_unwrap",
                        <<"uhd_tx_metadata_make">>, buffer_pointers,
                        hw_tx_metadata, NULL, FALSE)
       ELSE
       LET h == FreshHandle(hw_tx_metadata)
           made == uhd_tx_metadata_make(hw_tx_metadata, h, default_make_args)
           unwound == drop_TransmitMetadata(made, h)
           query == buffer_pointers = <<>>
           calls == IF query
                    THEN <<"uhd_tx_metadata_make",
                           "uhd_tx_streamer_num_channels">>
                    ELSE <<"uhd_tx_metadata_make">>
           freed == Append(calls, "uhd_tx_metadata_free")
           cache == resize_if_empty(buffer_pointers, num_channels)
       IN
       IF query /\ ~ncOk
       THEN \* self.num_channels() panics in .unwrap()
            TransmitEnd(t, op, buffers, "panic_unwrap", freed,
                        buffer_pointers, unwound, h, FALSE)
       ELSE IF ~count_matches(buffers, cache)
       THEN TransmitEnd(t, op, buffers, "panic_count", freed, cache,
                        unwound, h, FALSE)
       ELSE IF check_equal_buffer_lengths(buffers).panic
       THEN TransmitEnd(t, op, buffers, "panic_length", freed, cache,
                        unwound, h, FALSE)
       ELSE TransmitEnd(t, op, buffers, "Ok", calls,
                        copy_pointers(cache, buffers), made, h, TRUE)

MetadataVars == <<hw_tx_metadata, metadata>>

\* A thread enters a method of the shared streamer.
CallTransmit(t) ==
    /\ streamer_live /\ pc[t] = "idle" /\ ExclusiveBorrow(t)
    /\ pc' = [pc EXCEPT ![t] = "transmit"]
    /\ lastCall' = NoCall
    /\ UNCHANGED <<hw_num_channels, hw_streamer, buffer_pointers,
                   streamer_live, MetadataVars, ValidatorVars>>

CallTransmitSimple(t) ==
    /\ streamer_live /\ pc[t] = "idle" /\ ExclusiveBorrow(t)
    /\ pc' = [pc EXCEPT ![t] = "transmit_simple"]
    /\ lastCall' = NoCall
    /\ UNCHANGED <<hw_num_channels, hw_streamer, buffer_pointers,
                   streamer_live, MetadataVars, ValidatorVars>>

CallSendCommand(t) ==
    /\ streamer_live /\ pc[t] = "idle" /\ SharedBorrow(t)
    /\ pc' = [pc EXCEPT ![t] = "send_command"]
    /\ lastCall' = NoCall
    /\ UNCHANGED <<hw_num_channels, hw_streamer, buffer_pointers,
                   streamer_live, MetadataVars, ValidatorVars>>

CallNumChannels(t) ==
    /\ streamer_live /\ pc[t] = "idle" /\ SharedBorrow(t)
    /\ pc' = [pc EXCEPT ![t] = "num_channels"]
    /\ lastCall' = NoCall
    /\ UNCHANGED <<hw_num_channels, hw_streamer, buffer_pointers,
                   streamer_live, MetadataVars, ValidatorVars>>

\* TransmitStreamer::transmit
Transmit(t, buffers, allocOk, ncOk) ==
    /\ pc[t] = "transmit"
    /\ TransmitBody(t, "transmit", buffers, allocOk, ncOk)

\* TransmitStreamer::transmit_simple: self.transmit(&mut [buffer], 0.1, false)
TransmitSimple(t, buffer, allocOk, ncOk) ==
    /\ pc[t] = "transmit_simple"
    /\ TransmitBody(t, "transmit_simple", <<buffer>>, allocOk, ncOk)

\* TransmitStreamer::send_command: todo!()
SendCommand(t) ==
    /\ pc[t] = "send_command"
    /\ pc' = [pc EXCEPT ![t] = "idle"]
    /\ lastCall' = Call("send_command", "panic_todo", <<>>, NULL, <<>>)
    /\ UNCHANGED <<hw_num_channels, hw_streamer, buffer_pointers,
                   streamer_live, MetadataVars, ValidatorVars>>

\* TransmitStreamer::num_channels
NumChannels(t, ncOk) ==
    /\ pc[t] = "num_channels"
    /\ pc' = [pc EXCEPT ![t] = "idle"]
    /\ lastCall' = Call("num_channels",
                        IF ncOk THEN "value" ELSE "panic_unwrap",
                        <<"uhd_tx_streamer_num_channels">>, NULL, <<>>)
    /\ UNCHANGED <<hw_num_channels, hw_streamer, buffer_pointers,
                   streamer_live, MetadataVars, ValidatorVars>>

\* The TransmitStreamer value goes out of scope (no borrow is alive).
StreamerDrop ==
    /\ streamer_live
    /\ \A u \in Threads : pc[u] = "idle"
    /\ streamer_live' = FALSE
    /\ hw_streamer' = drop_TransmitStreamer(hw_streamer)
    /\ buffer_pointers' = <<>>
    /\ lastCall' = Call("drop_streamer", "value",
                        <<"uhd_tx_streamer_free">>, NULL, <<>>)
    /\ UNCHANGED <<hw_num_channels, pc, MetadataVars, ValidatorVars>>

NotValidated == [done |-> FALSE, panic |-> FALSE, value |-> 0]

\* A direct run of check_equal_buffer_lengths on vbuffers.
Validate ==
    /\ ~vresult.done
    /\ vresult' = [done |-> TRUE,
                   panic |-> check_equal_buffer_lengths(vbuffers).panic,
                   value |-> check_equal_buffer_lengths(vbuffers).value]
    /\ UNCHANGED <<hw_num_channels, hw_streamer, buffer_pointers,
                   streamer_live, pc, MetadataVars, lastCall, vbuffers>>

\* ------------------------------------------------------- specifications
Buffers(b) == {MkBuffers(b, lens) : lens \in BufferSets}
AllBuffers == UNION {Buffers(b) : b \in Bases}
OneBuffer == {[addr |-> Addr(b, 1), len |-> n] : b \in Bases, n \in 0..MaxLen}

\* The statuses the native library can return in the current state: an
\* allocation succeeds only while the heap has room, and the channel-count
\* query is only made while the cache is empty.
AllocStatus == IF HasFreeHandle(hw_tx_metadata) THEN BOOLEAN ELSE {FALSE}
QueryStatus == IF buffer_pointers = <<>> THEN BOOLEAN ELSE {TRUE}

\* The state after the device has created the streamer.
Init ==
    /\ hw_num_channels \in 0..MaxChannels
    /\ hw_streamer = [allocated |-> TRUE, frees |-> 0]
    /\ hw_tx_metadata = [h \in Handles |-> FreeSlot(0)]
    /\ buffer_pointers = <<>>
    /\ streamer_live = TRUE
    /\ metadata = [h \in Handles |-> NoMetadata("none")]
    /\ pc = [t \in Threads |-> "idle"]
    /\ lastCall = NoCall
    /\ vbuffers = <<>>
    /\ vresult = NotValidated

Next ==
    \/ \E t \in Threads : CallTransmit(t)
    \/ \E t \in Threads : CallTransmitSimple(t)
    \/ \E t \in Threads : CallSendCommand(t)
    \/ \E t \in Threads : CallNumChannels(t)
    \/ \E t \in Threads, buffers \in AllBuffers,
          allocOk \in AllocStatus, ncOk \in QueryStatus :
          Transmit(t, buffers, allocOk, ncOk)
    \/ \E t \in Threads, buffer \in OneBuffer,
          allocOk \in AllocStatus, ncOk \in QueryStatus :
          TransmitSimple(t, buffer, allocOk, ncOk)
    \/ \E t \in Threads : SendCommand(t)
    \/ \E t \in Threads, ncOk \in BOOLEAN : NumChannels(t, ncOk)
    \/ StreamerDrop
    \/ \E allocOk \in AllocStatus : MetadataDefault(allocOk)
    \/ \E h \in Handles : MetadataDrop(h)

Spec == Init /\ [][Next]_vars

\* The life of TransmitMetadata values on their own.
NextMetadata ==
    \/ \E burst \in BurstSpecs, time \in OptTimeSpecs, allocOk \in AllocStatus :
          MetadataNew(burst, time, allocOk)
    \/ \E allocOk \in AllocStatus : MetadataDefault(allocOk)
    \/ \E h \in Handles : MetadataDrop(h)

SpecMetadata == Init /\ [][NextMetadata]_vars

\* Runs of the validator alone, on every buffer set within the bounds.
VLengths == UNION {[1..n -> 0..VMaxLen] : n \in 0..VMaxBuffers}
InitValidator ==
    /\ hw_num_channels = 0
    /\ hw_streamer = [allocated |-> TRUE, frees |-> 0]
    /\ hw_tx_metadata = [h \in Handles |-> FreeSlot(0)]
    /\ buffer_pointers = <<>>
    /\ streamer_live = TRUE
    /\ metadata = [h \in Handles |-> NoMetadata("none")]
    /\ pc = [t \in Threads |-> "idle"]
    /\ lastCall = NoCall
    /\ vbuffers \in {MkBuffers(1, lens) : lens \in VLengths}
    /\ vresult = NotValidated

NextValidator == Validate

SpecValidator == InitValidator /\ [][NextValidator]_vars

\* ---------------------------------------------------------------- claims
TransmitOps == {"transmit", "transmit_simple"}
ContractPanics == {"panic_count", "panic_length"}
Panics == ContractPanics \cup {"panic_unwrap", "panic_todo"}
Issued(call, entry) == \E i \in 1..Len(call.hwCalls) : call.hwCalls[i] = entry
UnequalLengths(buffers) ==
    \E i, j \in 1..Len(buffers) : buffers[i].len # buffers[j].len
\* A native status was an error exactly when the call ended in .unwrap()
BoundaryFailed(call) == call.result = "panic_unwrap"

\* C1: a transmit or transmit_simple call whose buffer count differs from
\* num_channels(), or whose buffers differ in length, panics (it returns
\* neither Ok nor Err) and issues no uhd_tx_streamer_send.
C1_ViolationAbortsBeforeTransfer ==
    (/\ lastCall.op \in TransmitOps
     /\ \/ Len(lastCall.buffers) # num_channels
        \/ UnequalLengths(lastCall.buffers))
    => /\ lastCall.result \in Panics
       /\ ~Issued(lastCall, "uhd_tx_streamer_send")

\* C1 witness: a call with the right number of buffers, of unequal
\* lengths, has panicked in the length check.
C1_Witness ==
    /\ lastCall.op = "transmit"
    /\ Len(lastCall.buffers) = num_channels
    /\ UnequalLengths(lastCall.buffers)
    /\ lastCall.result = "panic_length"

\* C2: every transmit call that meets its preconditions and no native
\* error returns Ok with samples() equal to the number of samples the
\* native transfer of that call moved per channel (so the call made a
\* transfer, and samples() is what the transfer reported).
C2_SamplesReflectTransfer ==
    (lastCall.op \in TransmitOps /\ lastCall.result = "Ok")
    => /\ Issued(lastCall, "uhd_tx_streamer_send")
       /\ samples(lastCall.handle) = lastCall.samples_transmitd

\* C3: a failure reported by the native library reaches the caller as an
\* Err value, never as a panic and never as Ok, in TransmitMetadata::new
\* and in transmit.
C3_BoundaryFailureIsErr ==
    (/\ lastCall.op \in TransmitOps \cup {"new"}
     /\ BoundaryFailed(lastCall))
    => lastCall.result = "Err"

\* C4: the native resource of the streamer and of every TransmitMetadata
\* is released exactly once: not at all while its owner is alive, once
\* when the owner is gone (dropped by its caller, or unwound by a panic
\* inside transmit), never twice.
C4_ReleasedExactlyOnce ==
    /\ hw_streamer.allocated = streamer_live
    /\ hw_streamer.frees = IF streamer_live THEN 0 ELSE 1
    /\ \A h \in Handles :
          /\ metadata[h].state = "live" =>
                hw_tx_metadata[h].allocated /\ hw_tx_metadata[h].frees = 0
          /\ metadata[h].state = "dropped" =>
                ~hw_tx_metadata[h].allocated /\ hw_tx_metadata[h].frees = 1
          /\ metadata[h].state = "none" =>
                ~hw_tx_metadata[h].allocated /\ hw_tx_metadata[h].frees = 0

\* C4 witness: transmit allocated its metadata, then panicked on a
\* contract violation, and the metadata has been released once.
C4_Witness ==
    /\ lastCall.op \in TransmitOps
    /\ lastCall.result \in ContractPanics
    /\ lastCall.handle # NULL
    /\ metadata[lastCall.handle].state = "dropped"
    /\ hw_tx_metadata[lastCall.handle].frees = 1

\* C5: the pointer cache is empty or holds exactly num_channels()
\* entries, and once it is non-empty no later call changes its length.
C5_CacheSizedOnce ==
    /\ [](buffer_pointers = <<>> \/ Len(buffer_pointers) = num_channels)
    /\ [][(buffer_pointers # <<>> /\ streamer_live')
             => Len(buffer_pointers') = Len(buffer_pointers)]_vars

\* C5 witness: a call that found the cache already sized (it made no
\* channel-count query) has returned Ok and the cache still holds
\* num_channels() entries.
C5_Witness ==
    /\ lastCall.op = "transmit"
    /\ lastCall.result = "Ok"
    /\ ~Issued(lastCall, "uhd_tx_streamer_num_channels")
    /\ num_channels = MaxChannels
    /\ Len(buffer_pointers) = num_channels

\* C6: check_equal_buffer_lengths returns 0 for no buffers, the first
\* buffer's length when every buffer has that length, and panics when a
\* buffer's length differs from the first buffer's.
C6_Validator ==
    vresult.done =>
        IF vbuffers = <<>>
        THEN ~vresult.panic /\ vresult.value = 0
        ELSE IF \A i \in 1..Len(vbuffers) : vbuffers[i].len = vbuffers[1].len
             THEN ~vresult.panic /\ vresult.value = vbuffers[1].len
             ELSE vresult.panic

\* C6 witness: the validator ran on the largest buffer set, whose last
\* buffer alone differs from the first, and panicked.
C6_Witness ==
    /\ vresult.done /\ vresult.panic
    /\ Len(vbuffers) = VMaxBuffers
    /\ \A i \in 1..(VMaxBuffers - 1) : vbuffers[i].len = vbuffers[1].len
    /\ vbuffers[VMaxBuffers].len # vbuffers[1].len

\* C7: for a metadata m built by TransmitMetadata::new(b, t), as long as
\* m lives, start_of_burst() = b.start, end_of_burst() = b.end, and
\* time_spec() is None iff t is None and otherwise has t's seconds and
\* fraction.
C7_NewRoundTrip ==
    \A h \in Handles :
        (metadata[h].state = "live" /\ metadata[h].origin = "new") =>
            /\ start_of_burst(h) = metadata[h].burst_spec.start
            /\ end_of_burst(h) = metadata[h].burst_spec.end
            /\ time_spec(h).present = metadata[h].time_spec.present
            /\ metadata[h].time_spec.present =>
                  /\ time_spec(h).seconds = metadata[h].time_spec.seconds
                  /\ time_spec(h).fraction = metadata[h].time_spec.fraction

\* C7 witness: a live metadata built from a start-only burst and a time
\* with non-zero seconds and fraction, still there after another
\* metadata was dropped.
C7_Witness ==
    /\ lastCall.op = "drop_metadata"
    /\ \E h \in Handles :
          /\ metadata[h].state = "live" /\ metadata[h].origin = "new"
          /\ metadata[h].burst_spec = [start |-> TRUE, end |-> FALSE]
          /\ metadata[h].time_spec = Some(MaxSecs, 1)

\* C8: the value TransmitMetadata::default() yields has time_spec() None,
\* start_of_burst() and end_of_burst() false, and samples() 0.
C8_Default ==
    (lastCall.op = "default" /\ lastCall.result = "value") =>
        /\ time_spec(lastCall.handle) = None
        /\ start_of_burst(lastCall.handle) = FALSE
        /\ end_of_burst(lastCall.handle) = FALSE
        /\ samples(lastCall.handle) = 0

\* C8 witness: default() has returned a value that is alive, after
\* another metadata has been dropped.
C8_Witness ==
    /\ lastCall.op = "default" /\ lastCall.result = "value"
    /\ metadata[lastCall.handle].state = "live"
    /\ \E h \in Handles : metadata[h].state = "dropped"

C10_CacheFrame ==
    [][\A t \in Threads :
          (pc[t] \in TransmitOps /\ pc'[t] = "idle") =>
             /\ lastCall'.result \in ContractPanics =>
                   buffer_pointers' =
                       IF buffer_pointers = <<>>
                       THEN [i \in 1..num_channels |-> NULL]
                       ELSE buffer_pointers
             /\ lastCall'.result = "Ok" =>
                   /\ Len(buffer_pointers') = num_channels
                   /\ \A i \in 1..num_channels :
                         buffer_pointers'[i] = lastCall'.buffers[i].addr
      ]_vars

\* C10 witness: a call has panicked on unequal lengths and the cache
\* still holds the addresses of an earlier call, none of this call's.
C10_Witness ==
    /\ lastCall.op = "transmit"
    /\ lastCall.result = "panic_length"
    /\ \A i \in 1..Len(buffer_pointers) :
          /\ buffer_pointers[i] # NULL
          /\ buffer_pointers[i] # lastCall.buffers[i].addr

====
